---- MODULE Spec2Model ----
(***************************************************************************)
(* comp_io::Reader (src/src/lib.rs): a chunked byte source over stdin or   *)
(* over a fixed string, and the numeric parsers layered on its next().     *)
(*                                                                         *)
(* The reader is the record Rd() of the fields buffer, index, len plus the *)
(* stream it reads from.  Every public operation is one action.  Bytes are *)
(* their numeric codes.  An Option is a record with a flag `some`.         *)
(***************************************************************************)
EXTENDS Integers, Sequences, FiniteSets, TLC

(* ----- byte codes used by the source ----------------------------------- *)
Zero    == 48
Nine    == 57
Minus   == 45
Plus    == 43
Period  == 46
Space   == 32
Newline == 10
Seven   == 55
LowerA  == 97

(* ----- numeric limits --------------------------------------------------- *)
\* i32::MAX; i32::MIN is written so that no literal exceeds TLC's integers.
I32Max == 2147483647
I32Min == -I32Max - 1
\* usize::MAX does not fit TLC's integers: the largest of them stands for it.  The code only compares it (index >= len, len < 400_000).
UsizeMax == 2147483647

(* ----- bounds of the model ---------------------------------------------- *)
\* The refill threshold and chunk size 400_000 (lib.rs lines 44, 51, 83),
\* scaled down so that whole chunks can be enumerated.
Chunk     == 2
\* Longest schedule of stream read outcomes.
MaxReads  == 2
\* Longest string handed to from_str in the byte-level specifications.
MaxLen    == 3
\* Operations performed on one reader.
MaxCalls  == 4
\* Longest token list in the token-level specifications.
MaxToks   == 4
\* Most fractional digits of a decimal token.
MaxFrac   == 2
\* Longest token list read by the unsigned parsers.
MaxAbs    == 2
\* Longest run of '0' digits after a sign.
MaxZeros  == 3
\* Longest list of decimal tokens.
MaxDecs   == 3
\* Longest text of arbitrary sign, digit and separator bytes.
MaxText   == 4

VARIABLES
    cfgTest,         \* TRUE: built with cfg(test) (next of lines 61-70)
    overflowChecks,  \* TRUE: arithmetic overflow panics (debug profile)
    ctor,            \* "new" or "from_str"
    input,           \* the bytes handed to from_str (<<>> for new)
    toks,            \* the numbers the input text was written from
    buffer, index, len,
    capacity,        \* a lower bound of buffer.capacity()
    stdin,           \* outcomes of the coming read_to_end calls, in order
    reads,           \* read_to_end calls made so far
    taken,           \* bytes read_to_end has taken from the stream, in order
    filled,          \* of these, the ones that returned Ok
    short,           \* some refill returned Ok(n) with n < Chunk
    ended,           \* next() has returned None
    garbage,         \* next() has returned a byte at a position >= len
    panic,           \* "none", "index" (out of bounds) or "overflow"
    consumed,        \* bytes returned by next(), in order
    ret,             \* result of the last operation
    ncalls           \* operations performed

vars == <<cfgTest, overflowChecks, ctor, input, toks, buffer, index, len,
          capacity, stdin, reads, taken, filled, short, ended, garbage,
          panic, consumed,
          ret, ncalls>>

(* ----- helpers ----------------------------------------------------------- *)
Max(a, b) == IF a >= b THEN a ELSE b

SeqsUpTo(S, n) == UNION { [1..k -> S] : k \in 0..n }

IsDigit(b) == b >= Zero /\ b <= Nine

(* The reader as a value, so that operations compose. *)
Rd == [buffer |-> buffer, index |-> index, len |-> len, capacity |-> capacity,
       stdin |-> stdin, reads |-> reads, taken |-> taken,
       filled |-> filled, short |-> short,
       ended |-> ended, garbage |-> garbage, panic |-> panic,
       consumed |-> consumed]

None(r)    == [rd |-> [r EXCEPT !.ended = TRUE], some |-> FALSE, v |-> 0]
Abort(r)   == [rd |-> [r EXCEPT !.panic = "index"], some |-> FALSE, v |-> 0]
Some(r, b) == [rd |-> r, some |-> TRUE, v |-> b]

(* ----- Iterator::next ---------------------------------------------------- *)
\* Fetch with `self.index += 1` forgotten.
FetchNoAdvance(r) ==
    IF r.index >= Len(r.buffer)
    THEN Abort(r)
    ELSE Some([r EXCEPT !.garbage = @ \/ r.index >= r.len,
                        !.consumed = Append(@, r.buffer[r.index + 1])],
              r.buffer[r.index + 1])

\* let n = self.buffer[self.index]; self.index += 1; Some(n)
\* Indexing a Vec is bounds-checked against buffer.len(): out of range panics.
Fetch(r) ==
    IF r.index >= Len(r.buffer)
    THEN Abort(r)
    ELSE Some([r EXCEPT !.index = @ + 1,
                        !.garbage = @ \/ r.index >= r.len,
                        !.consumed = Append(@, r.buffer[r.index + 1])],
              r.buffer[r.index + 1])

\* The outcome of io::stdin().lock().take(400_000).read_to_end(&mut buffer):
\* the next scheduled one, and Ok(0) (end of file) once the schedule is over.
ReadOutcome(r) ==
    IF r.stdin = <<>> THEN [ok |-> TRUE, data |-> <<>>] ELSE Head(r.stdin)

\* buffer.clear(); read_to_end(): the bytes read are appended to the emptied
\* buffer, also when the call then fails.
Refill(r) ==
    LET o == ReadOutcome(r) IN
    [r EXCEPT !.buffer = o.data,
              !.capacity = Max(@, Len(o.data)),
              !.stdin = IF @ = <<>> THEN @ ELSE Tail(@),
              !.reads = @ + 1,
              !.taken = @ \o o.data]

\* AfterRefill with `self.index = 0` forgotten.
AfterRefillKeepsIndex(r, o) ==
    IF ~o.ok
    THEN None(r)
    ELSE Fetch([r EXCEPT !.len = Len(o.data),
                         !.filled = @ + 1,
                         !.short = @ \/ Len(o.data) < Chunk])

\* self.len = ....ok()?; self.index = 0;
AfterRefill(r, o) ==
    IF ~o.ok
    THEN None(r)
    ELSE Fetch([r EXCEPT !.len = Len(o.data), !.index = 0,
                         !.filled = @ + 1,
                         !.short = @ \/ Len(o.data) < Chunk])

\* ThresholdStops with the test `self.len < 400_000` dropped.
ThresholdOff(r) == FALSE

\* ThresholdStops stopping only after an empty chunk.
ThresholdEmptyOnly(r) == r.len = 0

\* An exhausted buffer whose len is below the threshold is never refilled.
ThresholdStops(r) == r.len < Chunk

\* #[cfg(not(test))] fn next
next_prod(r) ==
    IF r.index >= r.len
    THEN IF ThresholdStops(r)
         THEN None(r)
         ELSE AfterRefill(Refill(r), ReadOutcome(r))
    ELSE Fetch(r)

\* #[cfg(test)] fn next
next_test(r) ==
    IF r.index >= r.len THEN None(r) ELSE Fetch(r)

next(r) == IF cfgTest THEN next_test(r) ELSE next_prod(r)

(* ----- i32 arithmetic -------------------------------------------------- *)
\* a + b leaves the i32 range.
AddOverflows(a, b) ==
    \/ b > 0 /\ a > I32Max - b
    \/ b < 0 /\ a < I32Min - b

\* a + b modulo 2^32, computed without leaving the i32 range on the way.
WrappingAdd(a, b) ==
    IF b > 0 /\ a > I32Max - b THEN (a + I32Min) + (b + I32Min)
    ELSE IF b < 0 /\ a < I32Min - b THEN (a - I32Min) + (b - I32Min)
    ELSE a + b

Mul10Overflows(r) == r > I32Max \div 10 \/ r < -(I32Max \div 10)

WrappingMul10(r) ==
    LET r2 == WrappingAdd(r, r)
        r4 == WrappingAdd(r2, r2)
        r8 == WrappingAdd(r4, r4)
    IN  WrappingAdd(r8, r2)

\* r * 10 + val - 48, evaluated left to right as Rust does: (r * 10 + val) - 48.
\* ovf: one of the three steps overflows (a panic under overflow checks).
Accumulate(r, val) ==
    LET m == WrappingMul10(r)
        a == WrappingAdd(m, val)
        s == WrappingAdd(a, -Zero)
    IN  [v |-> s,
         ovf |-> Mul10Overflows(r) \/ AddOverflows(m, val) \/ AddOverflows(a, -Zero)]

\* if neg { -r } else { r }
Signed(neg, r) ==
    IF ~neg THEN [v |-> r, ovf |-> FALSE]
    ELSE IF r = I32Min THEN [v |-> I32Min, ovf |-> TRUE]
    ELSE [v |-> -r, ovf |-> FALSE]

\* A u32 is the record of its bit 31 and of its low 31 bits (2^31 does not
\* fit TLC's integers).  n as u32 keeps the bits of the i32 n.
AsU32(n) ==
    IF n < 0 THEN [top |-> 1, low |-> n - I32Min] ELSE [top |-> 0, low |-> n]

\* i32::unsigned_abs: self.wrapping_abs() as u32.
unsigned_abs(n) ==
    AsU32(IF n < 0 /\ n # I32Min THEN -n ELSE n)

\* u as usize: the u32 with zero upper bits.
AsUsize(u) == [high |-> 0, top |-> u.top, low |-> u.low]

(* ----- Reader::read_i32 -------------------------------------------------- *)
Overflowed(r) == [r EXCEPT !.panic = "overflow"]

\* The result of read_i32: Some((v, latest)) or None.
NoInt(r)          == [rd |-> r, some |-> FALSE, v |-> 0, latest |-> 0]
SomeInt(r, n, l)  == [rd |-> r, some |-> TRUE, v |-> n, latest |-> l]

\* while val >= b'0' && val <= b'9' { r = r * 10 + val - 48; val = next or break }
RECURSIVE DigitLoop(_, _, _)
DigitLoop(r, acc, val) ==
    IF IsDigit(val)
    THEN LET a == Accumulate(acc, val) IN
         IF a.ovf /\ overflowChecks
         THEN [rd |-> Overflowed(r), acc |-> acc, val |-> val]
         ELSE LET n == next(r) IN
              IF n.rd.panic # "none" THEN [rd |-> n.rd, acc |-> a.v, val |-> val]
              ELSE IF n.some THEN DigitLoop(n.rd, a.v, n.v)
              ELSE [rd |-> n.rd, acc |-> a.v, val |-> val]
    ELSE [rd |-> r, acc |-> acc, val |-> val]

\* Finish putting a non-digit terminator back instead of keeping it consumed.
FinishPushesBack(l, neg) ==
    LET s == Signed(neg, l.acc)
        back == IF IsDigit(l.val) THEN l.rd
                ELSE [l.rd EXCEPT !.index = @ - 1]
    IN
    IF l.rd.panic # "none" THEN NoInt(l.rd)
    ELSE IF s.ovf /\ overflowChecks THEN NoInt(Overflowed(l.rd))
    ELSE SomeInt(back, s.v, l.val)

\* Some((if neg { -r } else { r }, val))
Finish(l, neg) ==
    LET s == Signed(neg, l.acc) IN
    IF l.rd.panic # "none" THEN NoInt(l.rd)
    ELSE IF s.ovf /\ overflowChecks THEN NoInt(Overflowed(l.rd))
    ELSE SomeInt(l.rd, s.v, l.val)

\* LeadingByte with val primed with the sign byte itself, not with b'0'.
LeadingByteKeepsSign(r, b) ==
    IF IsDigit(b) THEN Finish(DigitLoop(r, 0, b), FALSE)
    ELSE IF b = Minus THEN Finish(DigitLoop(r, 0, b), TRUE)
    ELSE IF b = Plus THEN Finish(DigitLoop(r, 0, b), FALSE)
    ELSE NoInt(r)

\* LeadingByte taking digits only: a sign is an unexpected character.
LeadingByteDigitsOnly(r, b) ==
    IF IsDigit(b) THEN Finish(DigitLoop(r, 0, b), FALSE)
    ELSE NoInt(r)

\* LeadingByte without the arm for b'+'.
LeadingByteNoPlus(r, b) ==
    IF IsDigit(b) THEN Finish(DigitLoop(r, 0, b), FALSE)
    ELSE IF b = Minus THEN Finish(DigitLoop(r, 0, Zero), TRUE)
    ELSE NoInt(r)

\* The match on the first byte: a digit starts the number, a sign primes
\* val with b'0', anything else is None.
LeadingByte(r, b) ==
    IF IsDigit(b) THEN Finish(DigitLoop(r, 0, b), FALSE)
    ELSE IF b = Minus THEN Finish(DigitLoop(r, 0, Zero), TRUE)
    ELSE IF b = Plus THEN Finish(DigitLoop(r, 0, Zero), FALSE)
    ELSE NoInt(r)

\* read_i32 passing over one blank byte before the token.
read_i32_skipping_blank(r) ==
    LET n == next(r)
        m == IF n.some /\ n.v \in {Space, Newline} THEN next(n.rd) ELSE n
    IN
    IF m.rd.panic # "none" \/ ~m.some THEN NoInt(m.rd)
    ELSE LeadingByte(m.rd, m.v)

read_i32(r) ==
    LET n == next(r) IN
    IF n.rd.panic # "none" \/ ~n.some THEN NoInt(n.rd)
    ELSE LeadingByte(n.rd, n.v)

(* ----- the public parsers ------------------------------------------------ *)
next_i32(r) ==
    LET i == read_i32(r) IN [rd |-> i.rd, some |-> i.some, v |-> i.v]

\* next_u32 casting the signed value instead of taking its absolute value.
next_u32_cast(r) ==
    LET i == read_i32(r) IN
    [rd |-> i.rd, some |-> i.some, v |-> IF i.some THEN AsU32(i.v) ELSE 0]

\* Some(self.read_i32()?.0.unsigned_abs())
next_u32(r) ==
    LET i == read_i32(r) IN
    [rd |-> i.rd, some |-> i.some, v |-> IF i.some THEN unsigned_abs(i.v) ELSE 0]

\* Some(self.read_i32()?.0.unsigned_abs() as usize)
next_usize(r) ==
    LET i == read_i32(r) IN
    [rd |-> i.rd, some |-> i.some,
     v |-> IF i.some THEN AsUsize(unsigned_abs(i.v)) ELSE 0]

\* next_char skipping a space before the character.
next_char_skipping_space(r) ==
    LET n == next(r) IN
    IF n.some /\ n.v = Space THEN next(n.rd) ELSE n

\* Some(self.next()? as char): the byte is the character's code point.
next_char(r) == next(r)

\* PairSecond with the two components swapped.
PairSecondSwapped(a) ==
    LET b == read_i32(a.rd) IN
    IF b.some THEN [rd |-> b.rd, some |-> TRUE, v |-> <<b.v, a.v>>]
    ELSE [rd |-> b.rd, some |-> FALSE, v |-> <<0, 0>>]

\* PairSecond handing back the reader as the first read left it when the
\* second read fails.
PairSecondPutsBack(a) ==
    LET b == read_i32(a.rd) IN
    IF b.some THEN [rd |-> b.rd, some |-> TRUE, v |-> <<a.v, b.v>>]
    ELSE [rd |-> a.rd, some |-> FALSE, v |-> <<0, 0>>]

\* Some((self.read_i32()?.0, self.read_i32()?.0))
PairSecond(a) ==
    LET b == read_i32(a.rd) IN
    IF b.some THEN [rd |-> b.rd, some |-> TRUE, v |-> <<a.v, b.v>>]
    ELSE [rd |-> b.rd, some |-> FALSE, v |-> <<0, 0>>]

next_pair(r) ==
    LET a == read_i32(r) IN
    IF a.some THEN PairSecond(a)
    ELSE [rd |-> a.rd, some |-> FALSE, v |-> <<0, 0>>]

(* ----- f64 ----------------------------------------------------------------
   A double is modelled as the decimal it denotes, with its sign bit:
   (-1)^neg * num / 10^exp, num having no trailing zero when exp > 0.  The
   products digit * 10^-k and their sums are taken exactly; the rounding of
   binary floating point is not modelled. *)
RECURSIVE Pow10(_)
Pow10(k) == IF k = 0 THEN 1 ELSE 10 * Pow10(k - 1)

RECURSIVE Normal(_)
Normal(x) ==
    IF x.exp > 0 /\ x.num % 10 = 0
    THEN Normal([x EXCEPT !.num = @ \div 10, !.exp = @ - 1])
    ELSE x

\* base as f64
F64FromI32(n) == [neg |-> n < 0, num |-> IF n < 0 THEN -n ELSE n, exp |-> 0]

\* The signed numerator of x over 10^e.
Scaled(x, e) == (IF x.neg THEN -1 ELSE 1) * x.num * Pow10(e - x.exp)

\* x + y; a zero sum is -0.0 only when both operands are negative.
F64Add(x, y) ==
    LET e == Max(x.exp, y.exp)
        s == Scaled(x, e) + Scaled(y, e)
    IN  Normal([neg |-> IF s = 0 THEN x.neg /\ y.neg ELSE s < 0,
                num |-> IF s < 0 THEN -s ELSE s,
                exp |-> e])

\* x.copysign(y): the magnitude of x with the sign bit of y.
copysign(x, y) == [x EXCEPT !.neg = y.neg]

F64Zero == [neg |-> FALSE, num |-> 0, exp |-> 0]

(* ----- Reader::next_f64 -------------------------------------------------- *)
\* while val >= b'0' && val <= b'9' { dec += (val - b'0') * ten; ten *= 0.1;
\*                                    val = next or break }
\* ten is 10^-k.
RECURSIVE FractionLoop(_, _, _, _)
FractionLoop(r, dec, val, k) ==
    IF IsDigit(val)
    THEN LET d == F64Add(dec, Normal([neg |-> FALSE, num |-> val - Zero, exp |-> k]))
             n == next(r)
         IN  IF n.rd.panic # "none" THEN [rd |-> n.rd, dec |-> d]
             ELSE IF n.some THEN FractionLoop(n.rd, d, n.v, k + 1)
             ELSE [rd |-> n.rd, dec |-> d]
    ELSE [rd |-> r, dec |-> dec]

\* Some(base + dec.copysign(base))
WithFraction(base, dec) == F64Add(base, copysign(dec, base))

Fraction(i) ==
    LET f == FractionLoop(i.rd, F64Zero, Zero, 0) IN
    IF f.rd.panic # "none" THEN [rd |-> f.rd, some |-> FALSE, v |-> F64Zero]
    ELSE [rd |-> f.rd, some |-> TRUE, v |-> WithFraction(F64FromI32(i.v), f.dec)]

\* next_f64 with the test `latest != b'.'` forgotten.
next_f64_always_fraction(r) ==
    LET i == read_i32(r) IN
    IF ~i.some THEN [rd |-> i.rd, some |-> FALSE, v |-> F64Zero]
    ELSE Fraction(i)

next_f64(r) ==
    LET i == read_i32(r) IN
    IF ~i.some THEN [rd |-> i.rd, some |-> FALSE, v |-> F64Zero]
    ELSE IF i.latest # Period THEN [rd |-> i.rd, some |-> TRUE, v |-> F64FromI32(i.v)]
    ELSE Fraction(i)

(* ----- construction ------------------------------------------------------ *)
\* What one read_to_end call can do: deliver up to Chunk bytes (fewer than
\* Chunk means the stream reported end of file, for now), or fail after
\* having read some bytes.
StreamBytes == {Seven, Space}
Outcomes ==
    [ok : {TRUE}, data : SeqsUpTo(StreamBytes, Chunk)] \cup
    [ok : {FALSE}, data : SeqsUpTo(StreamBytes, 1)]
Schedules == SeqsUpTo(Outcomes, MaxReads)

StrBytes == {Seven, Minus, Space}

NoCall == [op |-> "none", some |-> FALSE, v |-> 0]

InitCommon ==
    /\ reads = 0 /\ taken = <<>> /\ filled = 0 /\ short = FALSE
    /\ ended = FALSE /\ garbage = FALSE
    /\ panic = "none" /\ consumed = <<>>
    /\ ret = NoCall /\ ncalls = 0

\* Reader::new
InitNew ==
    /\ ctor = "new" /\ input = <<>> /\ toks = <<>>
    /\ buffer = <<>> /\ capacity = Chunk
    /\ index = UsizeMax /\ len = UsizeMax

\* Reader::from_str
InitFromStr(s) ==
    /\ ctor = "from_str" /\ input = s
    /\ buffer = s /\ capacity = Len(s)
    /\ index = 0 /\ len = Len(s)

(* ----- operations -------------------------------------------------------- *)
\* The fields after an operation that left the reader as r.
Becomes(r) ==
    /\ buffer' = r.buffer /\ index' = r.index /\ len' = r.len
    /\ capacity' = r.capacity /\ stdin' = r.stdin /\ reads' = r.reads
    /\ taken' = r.taken
    /\ filled' = r.filled /\ short' = r.short
    /\ ended' = r.ended /\ garbage' = r.garbage
    /\ panic' = r.panic /\ consumed' = r.consumed

\* A panic ends the process; MaxCalls bounds the run.
CanCall == panic = "none" /\ ncalls < MaxCalls

Returns(op, res) ==
    /\ Becomes(res.rd)
    /\ ret' = [op |-> op, some |-> res.some /\ res.rd.panic = "none", v |-> res.v]
    /\ ncalls' = ncalls + 1
    /\ UNCHANGED <<cfgTest, overflowChecks, ctor, input, toks>>

CallNext ==
    /\ CanCall
    /\ Returns("next", next(Rd))

CallNextI32 ==
    /\ CanCall
    /\ Returns("next_i32", next_i32(Rd))

CallNextU32 ==
    /\ CanCall
    /\ Returns("next_u32", next_u32(Rd))

CallNextUsize ==
    /\ CanCall
    /\ Returns("next_usize", next_usize(Rd))

CallNextChar ==
    /\ CanCall
    /\ Returns("next_char", next_char(Rd))

CallNextPair ==
    /\ CanCall
    /\ Returns("next_pair", next_pair(Rd))

CallNextF64 ==
    /\ CanCall
    /\ Returns("next_f64", next_f64(Rd))

AnyCall ==
    \/ CallNext
    \/ CallNextI32
    \/ CallNextU32
    \/ CallNextUsize
    \/ CallNextChar
    \/ CallNextPair
    \/ CallNextF64

(* ----- specifications ---------------------------------------------------- *)
\* A stream-backed reader of the production build.
InitStream ==
    /\ InitCommon /\ InitNew
    /\ cfgTest = FALSE /\ overflowChecks = TRUE
    /\ stdin \in Schedules

\* A reader over a fixed string, in either build.  The test build never
\* touches stdin.
InitStr ==
    /\ InitCommon
    /\ \E s \in SeqsUpTo(StrBytes, MaxLen) : InitFromStr(s)
    /\ toks = <<>>
    /\ cfgTest \in BOOLEAN /\ overflowChecks = TRUE
    /\ stdin \in IF cfgTest THEN {<<>>} ELSE SeqsUpTo(Outcomes, 1)

\* Any reader: either constructor, either build.
Init ==
    \/ InitStream
    \/ InitStr
    \/ /\ InitCommon /\ InitNew
       /\ cfgTest = TRUE /\ overflowChecks = TRUE
       /\ stdin = <<>>

Next == AnyCall

Spec == Init /\ [][Next]_vars

NextStream == AnyCall

SpecStream == InitStream /\ [][NextStream]_vars

NextStr == AnyCall

SpecStr == InitStr /\ [][NextStr]_vars

(* ----- input texts ------------------------------------------------------- *)
\* The decimal digits of m >= 0, as bytes.
RECURSIVE DigitsOf(_)
DigitsOf(m) ==
    IF m < 10 THEN <<Zero + m>>
    ELSE Append(DigitsOf(m \div 10), Zero + (m % 10))

\* The decimal text of an i32 (what n.to_string() writes): a '-' for a
\* negative number, no '+', no leading zero.  |n| is split into its last
\* digit and the rest so that i32::MIN needs no negation.
ToDecimal(n) ==
    IF n >= 0 THEN DigitsOf(n)
    ELSE LET m    == n % 10
             last == IF m = 0 THEN 0 ELSE 10 - m
             rest == IF m = 0 THEN -(n \div 10) ELSE -(n \div 10) - 1
         IN  <<Minus>> \o (IF rest = 0 THEN <<>> ELSE DigitsOf(rest))
                       \o <<Zero + last>>

\* Tokens ts, the i-th followed by the separator byte sp[i]; the last one
\* only when `trailing`.
RECURSIVE Joined(_, _, _)
Joined(ts, sp, trailing) ==
    IF ts = <<>> THEN <<>>
    ELSE ToDecimal(Head(ts))
         \o (IF Len(ts) > 1 \/ trailing THEN <<Head(sp)>> ELSE <<>>)
         \o Joined(Tail(ts), Tail(sp), trailing)

\* The number written by the digits ds (values 0..9).
RECURSIVE FracNum(_)
FracNum(ds) ==
    IF ds = <<>> THEN 0
    ELSE 10 * FracNum(SubSeq(ds, 1, Len(ds) - 1)) + ds[Len(ds)]

DigitBytes(ds) == [i \in 1..Len(ds) |-> Zero + ds[i]]

Seps == {Space, Newline}

\* A from_str reader as the crate's tests run it: the cfg(test) next.  (The
\* production next treats a text shorter than 400_000 bytes the same way.)
InitText(s) ==
    /\ InitCommon /\ InitFromStr(s)
    /\ cfgTest = TRUE /\ stdin = <<>>

(* One integer and one separator byte. *)
IntCases ==
    {0, 7, -7, 10, 42, -120, 1000000000, 214748364, 2147483599, 2147483600,
     -2147483600, I32Max, -I32Max, I32Min}

InitInt ==
    /\ overflowChecks \in BOOLEAN
    /\ \E n \in IntCases, sep \in Seps :
          /\ toks = <<n>>
          /\ InitText(ToDecimal(n) \o <<sep>>)

NextInt == CallNextI32

SpecInt == InitInt /\ [][NextInt]_vars

(* A list of integers, one non-digit byte between two of them. *)
PairToks == {-3, 23}
PairSeps == {Space, Newline, Minus}

InitPair ==
    /\ overflowChecks = TRUE
    /\ \E ts \in SeqsUpTo(PairToks, MaxToks), trailing \in BOOLEAN :
          \E sp \in [1..Len(ts) -> PairSeps] :
             /\ toks = ts
             /\ InitText(Joined(ts, sp, trailing))

NextPair == CallNextPair

SpecPair == InitPair /\ [][NextPair]_vars

(* Arbitrary bytes, read as characters. *)
CharBytes == {Seven, Space, Newline, LowerA}

InitChar ==
    /\ overflowChecks = TRUE
    /\ toks = <<>>
    /\ \E s \in SeqsUpTo(CharBytes, MaxLen) : InitText(s)

NextChar == CallNextChar

SpecChar == InitChar /\ [][NextChar]_vars

(* One decimal: sign, integer digits, '.', fractional digits. *)
Signs     == {<<>>, <<Minus>>, <<Plus>>}
WholeNums == {0, 7, 754}
FracDigs  == {0, 3, 5}

InitF64 ==
    /\ overflowChecks = TRUE
    /\ \E sg \in Signs, w \in WholeNums, fr \in SeqsUpTo(FracDigs, MaxFrac),
          tail \in {<<>>, <<Space>>} :
          /\ toks = <<[neg |-> sg = <<Minus>>, whole |-> w, frac |-> fr]>>
          /\ InitText(sg \o DigitsOf(w) \o <<Period>> \o DigitBytes(fr) \o tail)

NextF64 == CallNextF64

SpecF64 == InitF64 /\ [][NextF64]_vars

(* A list of decimal tokens: plain integers, integers with fractional digits,
   integers with a bare trailing period; one separator byte after each, the
   last one optional. *)
DecForms ==
    { [neg |-> FALSE, whole |-> 45, dot |-> FALSE, frac |-> <<>>],
      [neg |-> TRUE,  whole |-> 4,  dot |-> FALSE, frac |-> <<>>],
      [neg |-> TRUE,  whole |-> 7,  dot |-> TRUE,  frac |-> <<3>>],
      [neg |-> FALSE, whole |-> 0,  dot |-> TRUE,  frac |-> <<0, 5>>],
      [neg |-> FALSE, whole |-> 32, dot |-> TRUE,  frac |-> <<>>] }

\* The bytes of one decimal token, without its separator.
DecText(t) ==
    (IF t.neg THEN <<Minus>> ELSE <<>>) \o DigitsOf(t.whole)
    \o (IF t.dot THEN <<Period>> \o DigitBytes(t.frac) ELSE <<>>)

\* The text of the tokens ts up to and including the k-th one's separator.
RECURSIVE DecJoined(_, _)
DecJoined(ts, k) ==
    IF k = 0 THEN <<>>
    ELSE DecJoined(ts, k - 1) \o DecText(ts[k].form) \o ts[k].sep

InitDec ==
    /\ overflowChecks = TRUE
    /\ \E fs \in SeqsUpTo(DecForms, MaxDecs) :
          \E sp \in [1..Len(fs) -> Seps], trailing \in BOOLEAN :
             /\ toks = [i \in 1..Len(fs) |->
                          [form |-> fs[i],
                           sep  |-> IF i < Len(fs) \/ trailing
                                    THEN <<sp[i]>> ELSE <<>>]]
             /\ InitText(DecJoined(toks, Len(fs)))

NextDec == CallNextF64

SpecDec == InitDec /\ [][NextDec]_vars

(* Integers of either sign read by next_i32, next_u32 and next_usize; the
   text may start with a byte that begins no number. *)
AbsToks == {0, -7, 120, I32Max, I32Min}

InitAbs ==
    /\ overflowChecks \in BOOLEAN
    /\ \E ts \in SeqsUpTo(AbsToks, MaxAbs), sep \in Seps, trailing \in BOOLEAN,
          junk \in {<<>>, <<Space>>} :
          /\ toks = ts
          /\ InitText(junk \o Joined(ts, [i \in 1..Len(ts) |-> sep], trailing))

NextAbs ==
    \/ CallNextI32
    \/ CallNextU32
    \/ CallNextUsize

SpecAbs == InitAbs /\ [][NextAbs]_vars

(* A sign followed by a run of '0' digits, with or without a byte after it. *)
InitZero ==
    /\ overflowChecks \in BOOLEAN
    /\ toks = <<0>>
    /\ \E sg \in {Minus, Plus}, n \in 1..MaxZeros,
          tail \in {<<>>, <<Space>>, <<Newline>>} :
          InitText(<<sg>> \o [i \in 1..n |-> Zero] \o tail)

NextZero == CallNextI32

SpecZero == InitZero /\ [][NextZero]_vars

(* Arbitrary short texts of digits, signs, periods and separators, read by
   the parsers built on read_i32. *)
LeadBytes == {Seven, Minus, Plus, Period, Space}

InitLead ==
    /\ overflowChecks \in BOOLEAN
    /\ toks = <<>>
    /\ \E s \in SeqsUpTo(LeadBytes, MaxLen) : InitText(s)

NextLead ==
    \/ CallNextI32
    \/ CallNextU32
    \/ CallNextUsize
    \/ CallNextPair
    \/ CallNextF64

SpecLead == InitLead /\ [][NextLead]_vars

(* Texts of signs, digits and separators in any arrangement, read by the
   integer parsers. *)
AdvBytes == {Seven, Minus, Plus, Space}

InitAdv ==
    /\ overflowChecks \in BOOLEAN
    /\ toks = <<>>
    /\ \E s \in SeqsUpTo(AdvBytes, MaxText) : InitText(s)

NextAdv ==
    \/ CallNextI32
    \/ CallNextU32
    \/ CallNextUsize

SpecAdv == InitAdv /\ [][NextAdv]_vars

(* Two integer tokens with two separator bytes between them, read by the
   integer parsers. *)
GapToks == {-3, 0, 23}

InitGap ==
    /\ overflowChecks \in BOOLEAN
    /\ \E a \in GapToks, b \in GapToks, s1 \in Seps, s2 \in Seps,
          tail \in {<<>>, <<Space>>, <<Newline>>} :
          /\ toks = <<a, b>>
          /\ InitText(ToDecimal(a) \o <<s1, s2>> \o ToDecimal(b) \o tail)

NextGap ==
    \/ CallNextI32
    \/ CallNextU32
    \/ CallNextUsize

SpecGap == InitGap /\ [][NextGap]_vars

(* The same texts read as pairs, from any token boundary. *)
NextHalf ==
    \/ CallNextPair
    \/ CallNextI32

SpecHalf == InitAdv /\ [][NextHalf]_vars

(* The short texts of InitLead read as integers and as decimals. *)
NextEnd ==
    \/ CallNextI32
    \/ CallNextF64

SpecEnd == InitLead /\ [][NextEnd]_vars

(* ========================= the claims ==================================== *)
IsPrefix(s, u) == Len(s) <= Len(u) /\ s = SubSeq(u, 1, Len(s))

\* The last successful refill of a stream-backed reader returned no byte.
ZeroRefill == ctor = "new" /\ filled > 0 /\ buffer = <<>> /\ len = 0

\* A read_to_end call has failed.
ReadFailed == reads > filled

\* Nothing ever refills this from_str reader's kind: the test build, or an
\* input below the refill threshold.
FixedBuffer == cfgTest \/ Len(input) < Chunk

(* C1: a stream-backed reader whose refill yields zero bytes returns
   end-of-sequence from that call, and no call ever aborts on an index
   beyond the valid bytes. *)
C1_ZeroRefillEndsSequence ==
    /\ ZeroRefill => (~ret.some /\ panic = "none")
    /\ panic # "index"

(* C2: once a refill has failed or returned zero bytes and the call has
   returned end-of-sequence, every later call returns end-of-sequence without
   reading the stream again. *)
C2_ExhaustedForGood ==
    [][((ReadFailed \/ ZeroRefill) /\ ended)
          => (reads' = reads /\ ~ret'.some)]_vars

(* C3 as stated: in every reachable state 0 <= index <= len <= capacity of
   the buffer, and no byte at a position >= len is read. *)
C3_CursorInvariant ==
    /\ 0 <= index /\ index <= len /\ len <= capacity
    /\ ~garbage

\* The state Reader::new leaves until the first read_to_end returns Ok.
Sentinel == ctor = "new" /\ filled = 0 /\ index = UsizeMax /\ len = UsizeMax

(* C3 amended: 0 <= index <= len <= capacity holds in every state of a
   from_str reader and, for a reader made by new, from its first successful
   refill on; until then index = len = usize::MAX.  No byte at a position
   >= len is ever returned. *)
C3_CursorInvariantAfterFill ==
    /\ Sentinel \/ (0 <= index /\ index <= len /\ len <= capacity)
    /\ ~garbage

C3_Witness ==
    /\ ctor = "new" /\ filled = 2 /\ index = len /\ len > 0
    /\ Len(consumed) > len

(* C4 as stated: from_str(s) starts with index 0, len = |s| and buffer = s,
   and the bytes next() returns are the bytes of s, in order, one per call,
   and never any other byte. *)
C4_YieldsExactlyInput ==
    /\ ncalls = 0 => (index = 0 /\ len = Len(input) /\ buffer = input)
    /\ IsPrefix(consumed, input)
    /\ ret.op = "next" =>
          IF ret.some THEN ret.v = input[Len(consumed)] ELSE consumed = input

(* C4 amended: from_str(s) starts with index 0, len = |s| and buffer = s; the
   first |s| bytes next() returns are the bytes of s in order, one per call;
   under the cfg(test) next, or when s is shorter than the refill threshold,
   no other byte is ever returned. *)
C4_YieldsInputThenBuildDecides ==
    /\ ncalls = 0 => (index = 0 /\ len = Len(input) /\ buffer = input)
    /\ IF Len(consumed) <= Len(input)
       THEN IsPrefix(consumed, input)
       ELSE IsPrefix(input, consumed)
    /\ reads = 0 => (buffer = input /\ index = Len(consumed))
    /\ FixedBuffer =>
          /\ IsPrefix(consumed, input) /\ panic = "none"
          /\ ret.op = "next" =>
                IF ret.some THEN ret.v = input[index] ELSE consumed = input

C4_Witness ==
    /\ ctor = "from_str" /\ Len(input) = MaxLen /\ consumed = input
    /\ ret.op = "next" /\ ~ret.some /\ ncalls = MaxLen + 1

(* C5 as stated: a from_str reader of any length never refills from the
   stream, and once next() has returned end-of-sequence it returns no
   further byte. *)
C5_FixedNeverRefills ==
    [][/\ reads' = reads
       /\ ended => (ended' /\ consumed' = consumed /\ ~ret'.some)]_vars

(* C5 amended: the same, for a from_str reader under the cfg(test) next or
   over a sequence shorter than the refill threshold. *)
C5_FixedNeverRefillsBelowThreshold ==
    [][FixedBuffer =>
          /\ reads' = reads
          /\ ended => (ended' /\ consumed' = consumed /\ ~ret'.some)]_vars

C5_Witness ==
    /\ ctor = "from_str" /\ ~cfgTest /\ Len(input) = Chunk - 1
    /\ stdin # <<>> /\ Head(stdin).ok /\ Head(stdin).data # <<>>
    /\ ended /\ consumed = input /\ ret.op = "next" /\ ~ret.some
    /\ ncalls >= Len(input) + 2

(* C6: after a refill that received fewer bytes than the threshold, the
   stream is never read again, and once that chunk is consumed every call
   returns end-of-sequence. *)
C6_ShortChunkIsLast ==
    [][(short /\ panic = "none") =>
          /\ reads' = reads
          /\ index >= len => (consumed' = consumed /\ ~ret'.some)]_vars

C6_Witness ==
    /\ ctor = "new" /\ short /\ len > 0 /\ index >= len
    /\ stdin # <<>> /\ Head(stdin).ok /\ Head(stdin).data # <<>>
    /\ ret.op = "next" /\ ~ret.some /\ ncalls >= len + 2

(* C7: next_i32 on the decimal text of n followed by one separator byte
   returns exactly n, for every i32 n, i32::MIN and i32::MAX included. *)
C7_IntegerRoundTrip ==
    (ret.op = "next_i32" /\ ncalls = 1) =>
        (panic = "none" /\ ret.some /\ ret.v = toks[1])

(* C8: over integer tokens separated by one non-digit byte each, the k-th
   next_pair returns (token 2k-1, token 2k); it returns no value when one of
   its two integer reads finds no token. *)
C8_PairsInOrder ==
    ret.op = "next_pair" =>
        IF 2 * ncalls <= Len(toks)
        THEN ret.some /\ ret.v = <<toks[2 * ncalls - 1], toks[2 * ncalls]>>
        ELSE ~ret.some

C8_Witness ==
    /\ ret.op = "next_pair" /\ ncalls = 2 /\ ret.some
    /\ Len(toks) = 4 /\ toks[3] # toks[4] /\ toks[1] # toks[3]

(* C9: the k-th next_char returns the k-th input byte as a character,
   whatever the byte (separator, newline), consuming exactly one byte; it
   returns no value only when the input is used up. *)
C9_CharsInOrder ==
    ret.op = "next_char" =>
        IF ncalls <= Len(input)
        THEN ret.some /\ ret.v = input[ncalls] /\ index = ncalls
        ELSE ~ret.some /\ index = Len(input)

C9_Witness ==
    /\ ret.op = "next_char" /\ ncalls = 2 /\ ret.some /\ ret.v = Newline
    /\ input[1] = Space /\ Len(input) = 3

\* The decimal a token of InitF64 denotes.
Denoted(t) ==
    Normal([neg |-> t.neg,
            num |-> t.whole * Pow10(Len(t.frac)) + FracNum(t.frac),
            exp |-> Len(t.frac)])

(* C10: for sign, integer digits, '.', fractional digits, next_f64 returns
   integer part plus fraction with the fraction carrying the sign of the
   text, also when the integer part is zero ("-0.5" gives -0.5). *)
C10_FractionTakesSign ==
    (ret.op = "next_f64" /\ ncalls = 1) =>
        /\ ret.some
        /\ ret.v.num = Denoted(toks[1]).num
        /\ ret.v.exp = Denoted(toks[1]).exp
        /\ ret.v.num # 0 => ret.v.neg = toks[1].neg

(* C11: over decimal tokens separated by one separator byte, the k-th
   next_f64 returns the value of the k-th token and leaves the cursor right
   after that token's separator; a token without a period gives its integer
   part, "32." gives 32; no value once the tokens are used up. *)
C11_DecimalsInOrder ==
    ret.op = "next_f64" =>
        IF ncalls <= Len(toks)
        THEN /\ ret.some
             /\ ret.v = Denoted(toks[ncalls].form)
             /\ index = Len(DecJoined(toks, ncalls))
        ELSE ~ret.some /\ index = Len(input)

C11_Witness ==
    /\ ret.op = "next_f64" /\ ncalls = 3 /\ ret.some /\ Len(toks) = 3
    /\ ~toks[1].form.dot /\ toks[2].form.frac # <<>>
    /\ toks[3].form.dot /\ toks[3].form.frac = <<>>

\* The u32 u is the absolute value of the i32 n: u = n, or u + n = 0.
IsAbsOf(u, n) ==
    IF n >= 0 THEN u.top = 0 /\ u.low = n
    ELSE n + u.low = (IF u.top = 1 THEN I32Min ELSE 0)

(* C12: next_u32 and next_usize return the absolute value of what next_i32
   would return on the same input, no value exactly when next_i32 would
   return none, leave the reader where next_i32 would, and next_usize gives
   the same number as next_u32. *)
C12_UnsignedIsAbsOfSigned ==
    [][LET i == next_i32(Rd)
           u == next_u32(Rd)
           z == next_usize(Rd)
       IN  /\ ret'.op \in {"next_u32", "next_usize"} =>
                /\ ret'.some = (i.some /\ i.rd.panic = "none")
                /\ index' = i.rd.index /\ panic' = i.rd.panic
                /\ ret'.some => IsAbsOf(ret'.v, i.v)
           /\ z.some = u.some /\ z.rd = u.rd
           /\ u.some => (z.v.high = 0 /\ z.v.top = u.v.top /\ z.v.low = u.v.low)
      ]_vars

C12_Witness ==
    /\ ret.op = "next_usize" /\ ncalls = 2 /\ ret.some
    /\ toks = <<-7, I32Min>> /\ input[1] = Minus
    /\ ret.v = [high |-> 0, top |-> 1, low |-> 0]

(* C13: a '-' or '+' followed by a run of one or more '0' digits parses
   with next_i32 to the value 0: a value is produced and nothing aborts. *)
C13_SignedZeroIsZero ==
    (ret.op = "next_i32" /\ ncalls = 1) =>
        (panic = "none" /\ ret.some /\ ret.v = 0)

C13_Witness ==
    /\ ret.op = "next_i32" /\ ncalls = 1 /\ ret.some /\ ret.v = 0
    /\ input = <<Plus, Zero, Zero, Zero>>

\* The byte the reader r would pull next is a digit or a sign.
Leads(r) ==
    /\ r.index < r.len
    /\ LET b == r.buffer[r.index + 1] IN IsDigit(b) \/ b = Minus \/ b = Plus

(* C14: a parser built on read_i32 returns no value exactly when the first
   byte a read_i32 of it pulls is end-of-sequence or neither a digit nor a
   sign; after a digit or a sign it always returns a value.  (next_pair
   makes two such reads.) *)
C14_NoneIffBadLeadingByte ==
    [][/\ ret'.op \in {"next_i32", "next_u32", "next_usize", "next_f64"} =>
             (ret'.some <=> Leads(Rd))
       /\ ret'.op = "next_pair" =>
             (ret'.some <=> (Leads(Rd) /\ Leads(read_i32(Rd).rd)))
       /\ panic' = "none"
      ]_vars

C14_Witness ==
    /\ input = <<Minus, Space, Seven>> /\ ncalls = 2
    /\ ret.op = "next_f64" /\ ret.some /\ index = 3

\* 1 when the byte of s after position i is a sign, else 0.
SignLen(s, i) ==
    IF i < Len(s) /\ s[i + 1] \in {Minus, Plus} THEN 1 ELSE 0

\* The length of the maximal run of digits of s after position j.
RECURSIVE RunLen(_, _)
RunLen(s, j) ==
    IF j < Len(s) /\ IsDigit(s[j + 1]) THEN 1 + RunLen(s, j + 1) ELSE 0

(* C15: a successful integer parse advances the cursor by the optional sign
   byte, the maximal run of digits and, when a byte follows the digits, that
   one terminator byte; nothing is pushed back. *)
C15_ConsumesSignDigitsTerminator ==
    [][(ret'.op \in {"next_i32", "next_u32", "next_usize"} /\ ret'.some) =>
          LET sg  == SignLen(input, index)
              d   == RunLen(input, index + sg)
              end == index + sg + d
          IN  index' = end + (IF end < Len(input) THEN 1 ELSE 0)
      ]_vars

C15_Witness ==
    /\ input = <<Minus, Seven, Space, Seven>> /\ ncalls = 2
    /\ ret.op = "next_u32" /\ ret.some /\ index = 4

(* C16: on a stream-backed reader a refill happens only when index = len,
   every byte returned advances index by one (from 0 after a refill), and
   the bytes next() has returned are the first bytes taken from the stream,
   in order, none lost, duplicated or reordered. *)
C16_StreamBytesInOrder ==
    [][ctor = "new" =>
          /\ (ret'.op = "next" /\ reads' > reads) => index = len
          /\ (ret'.op = "next" /\ ret'.some) =>
                IF reads' > reads THEN index' = 1 ELSE index' - 1 = index
          /\ IsPrefix(consumed', taken')
      ]_vars

\* The last operation returned the value of the integer token n.
GotToken(n) ==
    /\ ret.some
    /\ IF ret.op = "next_i32" THEN ret.v = n ELSE IsAbsOf(ret.v, n)

(* C17: with two separator bytes between two integer tokens, the integer
   read after the first token consumes exactly the second separator and
   returns no value, and the read after that returns the second token. *)
C17_SecondSeparatorCostsARead ==
    LET first == Len(ToDecimal(toks[1])) IN
    /\ ncalls = 1 => (GotToken(toks[1]) /\ index = first + 1)
    /\ ncalls = 2 => (~ret.some /\ panic = "none" /\ index = first + 2)
    /\ ncalls = 3 => (GotToken(toks[2]) /\ index = Len(input))

C17_Witness ==
    /\ toks = <<-3, 23>> /\ input[3] = Space /\ input[4] = Newline
    /\ ncalls = 3 /\ ret.op = "next_i32" /\ ret.some /\ ret.v = 23

\* Where an integer read of the input started at cursor i stops, by C15's
\* count: past the sign, the digits and one terminator if there is one.
StopsAt(i) ==
    LET end == i + SignLen(input, i) + RunLen(input, i + SignLen(input, i))
    IN  end + (IF end < Len(input) THEN 1 ELSE 0)

(* C18: when the first integer read of next_pair succeeds and the second
   fails, next_pair returns no value and the first token, its terminator and
   the byte the second read rejected (if there was one) stay consumed: the
   cursor is not put back. *)
C18_PairNotAtomic ==
    [][(ret'.op = "next_pair" /\ Leads(Rd) /\ ~ret'.some) =>
          LET after == StopsAt(index) IN
          /\ ~Leads([Rd EXCEPT !.index = after])
          /\ index' = after + (IF after < Len(input) THEN 1 ELSE 0)
          /\ index' > index
          /\ IsPrefix(consumed, consumed')
          /\ Len(consumed') - Len(consumed) = index' - index
      ]_vars

C18_Witness ==
    /\ input = <<Seven, Space, Space, Seven>> /\ ncalls = 1
    /\ ret.op = "next_pair" /\ ~ret.some /\ index = 3

(* C19: a sign followed by no digit makes read_i32 produce 0, not no value;
   when the input ends right after the sign the terminator it reports is
   b'0' (48), and when the input ends right after digits it is the last
   digit: at the end of the input the terminator is never the period, so
   next_f64 returns the integer as it is, without a fractional part. *)
C19_TerminatorAtEndOfInput ==
    [][(ret'.op \in {"next_i32", "next_f64"} /\ Leads(Rd)) =>
          LET i   == read_i32(Rd)
              sg  == SignLen(input, index)
              d   == RunLen(input, index + sg)
              end == index + sg + d
          IN
          /\ i.some /\ ret'.some
          /\ (sg = 1 /\ d = 0) =>
                /\ i.v = 0
                /\ ret'.op = "next_i32" => ret'.v = 0
          /\ (sg = 1 /\ d = 0 /\ end = Len(input)) => i.latest = Zero
          /\ (d > 0 /\ end = Len(input)) => i.latest = input[end]
          /\ end = Len(input) =>
                /\ i.latest # Period
                /\ ret'.op = "next_f64" => ret'.v = F64FromI32(i.v)
                /\ index' = Len(input)
      ]_vars

C19_Witness ==
    /\ input = <<Seven, Space, Minus>> /\ ncalls = 2
    /\ ret.op = "next_f64" /\ ret.some /\ ret.v = F64FromI32(0) /\ index = 3

====
